---- MODULE Spec2Model ----
(***************************************************************************)
(* A model of the ProductList block tool (src/src/index.js): one widget    *)
(* instance, its ToolData, the DOM nodes it owns, the requests it has in   *)
(* flight and the settle timers it has pending.                            *)
(*                                                                         *)
(* Strings are sequences of UTF-16 code units.  JavaScript values that can *)
(* be undefined, null, a string or an object are records                   *)
(* [kind, str, obj]; an object is a function from its keys to strings.     *)
(***************************************************************************)
EXTENDS Integers, Sequences, FiniteSets, TLC

\* ---------------------------------------------------------------- bounds
\* the number of entry clicks (fetch attempts) explored
MaxSelections == 2

\* the length of the price strings explored
MaxPriceLen == 3

\* ------------------------------------------------------- JavaScript values
NoObj == [k \in {} |-> <<>>]
Undefined == [kind |-> "undefined", str |-> <<>>, obj |-> NoObj]
Null == [kind |-> "null", str |-> <<>>, obj |-> NoObj]
Str(s) == [kind |-> "string", str |-> s, obj |-> NoObj]
Obj(o) == [kind |-> "object", str |-> <<>>, obj |-> o]

\* ToBoolean of a value: undefined, null and '' are falsy, every object
\* (the empty one too) is truthy
Truthy(v) == \/ v.kind = "object"
             \/ v.kind = "string" /\ v.str # <<>>

\* the || operator
OrElse(a, b) == IF Truthy(a) THEN a ELSE b

\* property read v.k (undefined when absent; v is neither null nor undefined)
Field(v, k) == IF v.kind = "object" /\ k \in DOMAIN v.obj
               THEN Str(v.obj[k])
               ELSE Undefined

\* Object.keys(v).length
KeyCount(v) == IF v.kind = "object" THEN Cardinality(DOMAIN v.obj)
               ELSE IF v.kind = "string" THEN Len(v.str)
               ELSE 0

\* ----------------------------------------------------------------- strings
\* "h:a", "h:b": parsable URLs; "x": not parsable; " ": white space
UrlA == <<104, 58, 97>>
UrlB == <<104, 58, 98>>
UrlBad == <<120>>
Blank == <<32>>

\* WhiteSpace and LineTerminator code units, as String.prototype.trim uses
IsWhiteSpace(c) == c \in {9, 10, 11, 12, 13, 32, 160, 5760, 8232, 8233,
                          8239, 8287, 12288, 65279} \cup (8192..8202)

RECURSIVE TrimStart(_)
TrimStart(s) == IF s # <<>> /\ IsWhiteSpace(Head(s))
                THEN TrimStart(Tail(s))
                ELSE s

RECURSIVE TrimEnd(_)
TrimEnd(s) == IF s # <<>> /\ IsWhiteSpace(s[Len(s)])
              THEN TrimEnd(SubSeq(s, 1, Len(s) - 1))
              ELSE s

\* String.prototype.trim
Trim(s) == TrimEnd(TrimStart(s))

IsAlpha(c) == c \in (65..90) \cup (97..122)
IsSchemeChar(c) == IsAlpha(c) \/ c \in (48..57) \cup {43, 45, 46}

RECURSIVE StripLeft(_)
StripLeft(s) == IF s # <<>> /\ Head(s) <= 32 THEN StripLeft(Tail(s)) ELSE s

\* new URL(s) without a base succeeds only when s, after leading C0
\* controls and spaces, starts with a scheme: a letter, scheme characters,
\* then ':' (the strings of this model have no special scheme, so no host
\* is required)
URLParses(s) ==
    LET t == StripLeft(s)
    IN /\ t # <<>>
       /\ IsAlpha(t[1])
       /\ \E i \in 2..Len(t) : /\ t[i] = 58
                               /\ \A j \in 2..(i - 1) : IsSchemeChar(t[j])

\* ------------------------------------------------------------ host inputs
\* config.acList: the catalog of selectable entries
\* (titles "Ab" and "ｂC", the second starting with a full-width b)
Catalog == << [url |-> UrlA, title |-> <<65, 98>>],
              [url |-> UrlB, title |-> <<65346, 67>>] >>

\* what the user may have typed when a key goes up: nothing, "b", the
\* full-width capital "Ｃ", "z"
Texts == { <<>>, <<98>>, <<65315>>, <<122>> }

Endpoint == <<47, 109>>
HeaderSet == [Authorization |-> <<116>>]

\* the config objects the host may pass to the constructor
ConfigInputs == { [endpoint |-> Str(Endpoint), headers |-> Obj(HeaderSet),
                   language |-> Str(<<101, 110>>)] }

\* metadata objects a server may answer with
MetaFull == [title |-> <<84>>, image |-> <<73>>, description |-> <<68>>]
MetaLink == [link |-> UrlBad, title |-> <<85>>]

\* previously saved block data the host may pass to the constructor
SavedData == { [link |-> Undefined, meta |-> Undefined],
               [link |-> Str(<<>>), meta |-> Obj(NoObj)],
               [link |-> Str(Blank), meta |-> Obj(NoObj)],
               [link |-> Str(UrlA), meta |-> Obj(MetaFull)],
               [link |-> Str(UrlBad), meta |-> Obj(MetaFull)] }

\* response bodies and status codes
Bodies == { Null, Undefined, Str(<<>>), Obj(NoObj), Obj(MetaFull),
            Obj(MetaLink) }
Codes == {200, 399, 400}

\* the messages handed to api.i18n.t
MsgFetch == "Couldn't fetch the link data"
MsgGet == "Couldn't get this link data, try the other one"
MsgFormat == "Wrong response format from the server"

\* ------------------------------------------------------------------ state
VARIABLES
    config,         \* this.config
    _data,          \* this._data: [link, meta]
    url,            \* this.url
    rendered,       \* the host has called render(): the nodes exist
    inWrapper,      \* nodes.container is a child of nodes.wrapper
    container,      \* children of nodes.container, in order
    selectInDom,    \* this.select is a child of the input holder
    selectActive,   \* this.select has class is-active
    inputValue,     \* this.input.value
    ulList,         \* catalog indices of the <li> of #productsList
    inputError,     \* nodes.inputHolder has the error class
    progress,       \* classes of nodes.progress
    preview,        \* the preview nodes: anchor, image, title, ...
    listeners,      \* formDeleteFunc closures registered on document
    inflight,       \* requests awaiting their response
    issued,         \* every request handed to ajax.get, in order
    timers,         \* pending hideProgress timers, in firing order
    notifications,  \* calls of api.notifier.show, in order
    committed,      \* history: ToolData as constructed or last committed
    fetched,        \* history: links whose fetch brought metadata
    ret,            \* the last operation and what it returned
    widgets         \* a document with several rendered instances

dataVars == <<config, _data, url>>
domVars == <<rendered, inWrapper, container, selectInDom, selectActive,
             inputValue, ulList, inputError, progress, preview, listeners>>
netVars == <<inflight, issued, timers, notifications>>
histVars == <<committed, fetched>>
oneVars == <<dataVars, domVars, netVars, histVars, ret>>
vars == <<oneVars, widgets>>

\* this.headers: read by fetchLinkData, assigned nowhere in the class
thisHeaders == Undefined

\* set data(data), were it to keep metadata it already holds
setData_keepFirst(old, d) ==
    [link |-> OrElse(d.link, Str(old.link)).str,
     meta |-> IF KeyCount(old.meta) > 0 THEN old.meta
              ELSE OrElse(d.meta, old.meta)]

\* set data(data)
setData(old, d) ==
    [link |-> OrElse(d.link, Str(old.link)).str,
     meta |-> OrElse(d.meta, old.meta)]

\* the constructor's this.config
makeConfig(c) ==
    [endpoint |-> OrElse(c.endpoint, Str(<<>>)),
     headers |-> OrElse(c.headers, Obj(NoObj)),
     language |-> OrElse(c.language, Str(<<>>))]

\* parent.appendChild(n): a node already there moves to the end
appendChild(kids, n) == Append(SelectSeq(kids, LAMBDA k : k # n), n)

\* a remove() that leaves the node where it is
removeChild_keep(kids, n) == kids

\* n.remove()
removeChild(kids, n) == SelectSeq(kids, LAMBDA k : k # n)

\* an addEventListener that appends whatever the list holds
addEventListener_append(list, callback) == Append(list, callback)

\* document.addEventListener('click', callback): the list of a target holds
\* a callback of one type and capture flag once, a second add is dropped
addEventListener(list, callback) ==
    IF \E i \in 1..Len(list) : list[i] = callback
    THEN list
    ELSE Append(list, callback)

InContainer(n) == \E i \in 1..Len(container) : container[i] = n

\* prepareLinkPreview: the fresh preview nodes.  imgs are the <img> of
\* nodes.linkImage, bodies the body holders appended to the anchor, title
\* and description the text of nodes.linkTitle and nodes.linkDescription
prepareLinkPreview ==
    [href |-> Undefined,
     imgs |-> <<>>,
     imageInAnchor |-> FALSE,
     arrowInAnchor |-> FALSE,
     bodies |-> <<>>,
     title |-> <<>>,
     description |-> <<>>]

\* s.replace('円', ''): the first yen glyph removed
RECURSIVE RemoveFirstYen(_)
RemoveFirstYen(s) ==
    IF s = <<>> THEN <<>>
    ELSE IF Head(s) = 20870 THEN Tail(s)
    ELSE <<Head(s)>> \o RemoveFirstYen(Tail(s))

\* the price line, were the language not looked at
priceText_anyLanguage(price, language) ==
    IF \E i \in 1..Len(price) : price[i] = 20870
    THEN <<74, 80, 89, 32>> \o RemoveFirstYen(price)
    ELSE price

\* the text of the price line (lines 423-431)
priceText(price, language) ==
    IF language # <<106, 97, 45, 74, 80>>
       /\ \E i \in 1..Len(price) : price[i] = 20870
    THEN <<74, 80, 89, 32>> \o RemoveFirstYen(price)
    ELSE price

\* the body holder showLinkPreview builds for meta
makeBodyHolder(meta, language) ==
    LET week == Field(meta, "operating_days_of_week")
        price == Field(meta, "lowest_price_gross")
    IN [hasTitle |-> Truthy(Field(meta, "title")),
        hasDescription |-> Truthy(Field(meta, "description")),
        hasInfo |-> Truthy(price) \/ Truthy(week),
        week |-> IF Truthy(week) THEN week ELSE Undefined,
        price |-> IF Truthy(price)
                  THEN Str(priceText(price.str, language))
                  ELSE Undefined]

\* a body holder after nodes.linkTitle / nodes.linkDescription moved away
releaseNodes(b, title, description) ==
    [b EXCEPT !.hasTitle = @ /\ ~title,
              !.hasDescription = @ /\ ~description]

\* the preview nodes after showLinkPreview(meta) (lines 387-436)
showLinkPreview(p, meta, link, language) ==
    LET image == Field(meta, "image")
        title == Field(meta, "title")
        description == Field(meta, "description")
        old == [i \in 1..Len(p.bodies) |->
                   releaseNodes(p.bodies[i], Truthy(title), Truthy(description))]
    IN [href |-> Str(link),
        imgs |-> IF Truthy(image) THEN Append(p.imgs, image.str) ELSE p.imgs,
        imageInAnchor |-> p.imageInAnchor \/ Truthy(image),
        arrowInAnchor |-> TRUE,
        bodies |-> Append(old, makeBodyHolder(meta, language)),
        title |-> IF Truthy(title) THEN title.str ELSE p.title,
        description |-> IF Truthy(description) THEN description.str
                        ELSE p.description]

\* showLinkPreview ends in a TypeError: new URL(link) throws and the catch
\* block assigns to nodes.linkText, which no code creates (lines 438-446)
showLinkPreviewThrows(link) == ~URLParses(link)

\* ------------------------------------------------------------ constructor
\* the constructor, for a config of configs and saved data of saved
construct(configs, saved) ==
    /\ \E c \in configs : config = makeConfig(c)
    /\ \E d \in saved :
          _data = setData([link |-> <<>>, meta |-> Obj(NoObj)], d)
    /\ url = <<>>
    /\ rendered = FALSE
    /\ inWrapper = FALSE
    /\ container = <<>>
    /\ selectInDom = FALSE
    /\ selectActive = FALSE
    /\ inputValue = <<>>
    /\ ulList = <<>>
    /\ inputError = FALSE
    /\ progress = {}
    /\ preview = prepareLinkPreview
    /\ listeners = <<>>
    /\ inflight = {}
    /\ issued = <<>>
    /\ timers = <<>>
    /\ notifications = <<>>
    /\ committed = _data
    /\ fetched = IF KeyCount(_data.meta) > 0 THEN {_data.link} ELSE {}
    /\ ret = [op |-> "new", val |-> "none"]

Init == construct(ConfigInputs, SavedData) /\ widgets = <<>>

\* ----------------------------------------------------------------- render
\* the host calls render() once for an instance
Render ==
    /\ ~rendered
    /\ rendered' = TRUE
    \* makeInputHolder
    /\ selectInDom' = TRUE
    /\ selectActive' = FALSE
    /\ inputValue' = <<>>
    /\ ulList' = [i \in 1..Len(Catalog) |-> i]
    /\ inputError' = FALSE
    /\ progress' = {}
    /\ IF KeyCount(_data.meta) > 0
       THEN /\ container' = <<"linkContent">>
            /\ preview' = showLinkPreview(prepareLinkPreview, _data.meta,
                                          _data.link, config.language.str)
            /\ inWrapper' = ~showLinkPreviewThrows(_data.link)
            /\ ret' = [op |-> "render",
                       val |-> IF showLinkPreviewThrows(_data.link)
                               THEN "throws" ELSE "wrapper"]
       ELSE /\ container' = <<"inputHolder">>
            /\ preview' = prepareLinkPreview
            /\ inWrapper' = TRUE
            /\ ret' = [op |-> "render", val |-> "wrapper"]
    /\ UNCHANGED <<widgets, dataVars, listeners, netVars, histVars>>

\* ---------------------------------------------------------- the filter
\* String.prototype.toLowerCase on one code unit: the Latin capitals and the
\* full-width Latin capitals have a lower case 32 above them
lowerUnit(c) == IF c \in (65..90) \cup (65313..65338) THEN c + 32 ELSE c

toLowerCase(s) == [i \in 1..Len(s) |-> lowerUnit(s[i])]

\* replaceFullWidthCharactersWithHalfWidth (lines 290-294)
replaceFullWidthCharactersWithHalfWidth(s) ==
    [i \in 1..Len(s) |-> IF s[i] \in 65281..65374 THEN s[i] - 65248 ELSE s[i]]

\* s starts with t
RECURSIVE startsWith(_, _)
startsWith(s, t) ==
    \/ t = <<>>
    \/ s # <<>> /\ Head(s) = Head(t) /\ startsWith(Tail(s), Tail(t))

\* String.prototype.includes
RECURSIVE includes(_, _)
includes(s, t) ==
    \/ startsWith(s, t)
    \/ s # <<>> /\ includes(Tail(s), t)

\* the predicate of the filter (line 332), were the title not lower-cased
productMatches_caseSensitive(product, text) ==
    includes(replaceFullWidthCharactersWithHalfWidth(product.title), text)

\* the predicate of the filter (line 332)
productMatches(product, text) ==
    includes(replaceFullWidthCharactersWithHalfWidth(toLowerCase(product.title)),
             text)

\* makeProductsList(pList) after the list was emptied: one <li> for each
\* entry of pList, in its order
makeProductsList(pList) == pList

\* filterProductsList(filterText): the catalog indices handed to
\* makeProductsList
filterProductsList(filterText) ==
    LET text == replaceFullWidthCharactersWithHalfWidth(toLowerCase(filterText))
        all == [i \in 1..Len(Catalog) |-> i]
    IN IF text = <<>>
       THEN makeProductsList(all)
       ELSE makeProductsList(
                SelectSeq(all, LAMBDA i : productMatches(Catalog[i], text)))

\* ------------------------------------------------------- the dropdown
\* the input can be clicked while it is in the document
InputShown == /\ rendered
              /\ inWrapper
              /\ InContainer("inputHolder")
              /\ selectInDom

\* the entries can be clicked while the dropdown shows them: the style
\* sheet shows the list only beside a select that has class is-active
EntriesShown == InputShown /\ selectActive

\* click on the input (lines 247-254)
InputClick ==
    /\ InputShown
    /\ selectActive' = TRUE
    /\ listeners' = addEventListener(listeners, "formDeleteFunc")
    /\ ret' = [op |-> "event", val |-> "none"]
    /\ UNCHANGED <<widgets, dataVars, rendered, inWrapper, container, selectInDom,
                   inputValue, ulList, inputError, progress, preview,
                   netVars, histVars>>

\* a key goes up in the input, which then holds text: filteringProducts
\* (lines 240-246); with one widget in the document getElementById finds
\* this widget's input and list
KeyUp(text) ==
    /\ InputShown
    /\ inputValue' = text
    /\ ulList' = filterProductsList(text)
    /\ ret' = [op |-> "event", val |-> "none"]
    /\ UNCHANGED <<widgets, dataVars, rendered, inWrapper, container, selectInDom,
                   selectActive, inputError, progress, preview, listeners,
                   netVars, histVars>>

\* a formDeleteFunc that leaves the class alone
DocumentClick_leaveOpen ==
    /\ listeners # <<>>
    /\ ret' = [op |-> "event", val |-> "none"]
    /\ UNCHANGED <<widgets, dataVars, rendered, inWrapper, container, selectInDom,
                   selectActive, inputValue, ulList, inputError, progress,
                   preview, listeners, netVars, histVars>>

\* formDeleteFunc on a click whose target is outside .c-form-single .select
DocumentClick ==
    /\ listeners # <<>>
    /\ selectActive' = FALSE
    /\ ret' = [op |-> "event", val |-> "none"]
    /\ UNCHANGED <<widgets, dataVars, rendered, inWrapper, container, selectInDom,
                   inputValue, ulList, inputError, progress, preview,
                   listeners, netVars, histVars>>

\* ---------------------------------------------------------- fetch sequence
\* the argument of ajax.get (lines 492-496)
makeRequest(id, u) ==
    [id |-> id,
     method |-> "GET",
     url |-> config.endpoint,
     headers |-> thisHeaders,
     data |-> [url |-> u]]

\* click on the i-th catalog entry's <li>: the handler, startFetching and
\* fetchLinkData up to its await
EntryClick(i) ==
    /\ EntriesShown
    /\ \E k \in 1..Len(ulList) : ulList[k] = i
    /\ Len(issued) < MaxSelections
    /\ url' = Catalog[i].url
    /\ inputValue' = Catalog[i].title
    /\ selectActive' = FALSE
    /\ inputError' = FALSE
    /\ progress' = progress \cup {"loading"}
    /\ _data' = setData(_data, [link |-> Str(Catalog[i].url), meta |-> Undefined])
    /\ LET req == makeRequest(Len(issued) + 1, Catalog[i].url)
       IN /\ inflight' = inflight \cup {req}
          /\ issued' = Append(issued, req)
    /\ ret' = [op |-> "event", val |-> "none"]
    /\ UNCHANGED <<widgets, config, rendered, inWrapper, container, selectInDom, ulList,
                   preview, listeners, timers, notifications, histVars>>

\* fetchingFailed, were applyErrorStyle to leave the select in place
fetchingFailed_keepSelect(errorMessage) ==
    /\ notifications' = Append(notifications,
                               [message |-> errorMessage, style |-> "error"])
    /\ inputError' = TRUE
    /\ selectInDom' = selectInDom

\* fetchingFailed(errorMessage) with applyErrorStyle
fetchingFailed(errorMessage) ==
    /\ notifications' = Append(notifications,
                               [message |-> errorMessage, style |-> "error"])
    /\ inputError' = TRUE
    /\ selectInDom' = FALSE

\* the catch block, were it to send the request again
Reject_retry(r) ==
    /\ r \in inflight
    /\ Len(issued) <= MaxSelections
    /\ inflight' = inflight
    /\ issued' = Append(issued, r)
    /\ fetchingFailed(MsgFetch)
    /\ ret' = [op |-> "reject", val |-> "none"]
    /\ UNCHANGED <<widgets, dataVars, rendered, inWrapper, container, selectActive,
                   inputValue, ulList, progress, preview, listeners,
                   timers, histVars>>

\* the request is rejected: the catch block of fetchLinkData
Reject(r) ==
    /\ r \in inflight
    /\ inflight' = inflight \ {r}
    /\ fetchingFailed(MsgFetch)
    /\ ret' = [op |-> "reject", val |-> "none"]
    /\ UNCHANGED <<widgets, dataVars, rendered, inWrapper, container, selectActive,
                   inputValue, ulList, progress, preview, listeners, issued,
                   timers, histVars>>

\* the link onFetch computes (line 521)
fetchedLink(response) == OrElse(Field(response, "link"), Str(_data.link)).str

\* the status test of onFetch (line 512)
statusFailed_above400(code) == code > 400

statusFailed(code) == code >= 400

\* the request resolves with {body, code}: onFetch(body, code) inside the
\* try block of fetchLinkData
Respond(r, code, body) ==
    /\ r \in inflight
    /\ inflight' = inflight \ {r}
    /\ ret' = [op |-> "respond", val |-> "none"]
    /\ IF statusFailed(code)
       THEN /\ fetchingFailed(MsgGet)
            /\ UNCHANGED <<_data, progress, timers, histVars>>
       ELSE IF body.kind \in {"null", "undefined"}
       THEN \* response.link throws a TypeError, caught in fetchLinkData
            /\ fetchingFailed(MsgFetch)
            /\ UNCHANGED <<_data, progress, timers, histVars>>
       ELSE /\ _data' = setData(_data, [meta |-> body,
                                        link |-> Str(fetchedLink(body))])
            /\ IF ~Truthy(body)
               THEN /\ fetchingFailed(MsgFormat)
                    /\ UNCHANGED <<progress, timers, histVars>>
               ELSE \* hideProgress
                    /\ progress' = (progress \ {"loading"}) \cup {"loaded"}
                    /\ timers' = Append(timers, [id |-> r.id, meta |-> body])
                    /\ committed' = _data'
                    /\ fetched' = IF KeyCount(body) > 0
                                  THEN fetched \cup {r.data.url, _data'.link}
                                  ELSE fetched
                    /\ UNCHANGED <<notifications, inputError, selectInDom>>
    /\ UNCHANGED <<widgets, config, url, rendered, inWrapper, container, selectActive,
                   inputValue, ulList, preview, listeners, issued>>

\* the settle delay of hideProgress elapses (lines 534-537)
TimerFire ==
    /\ timers # <<>>
    /\ timers' = Tail(timers)
    /\ container' = appendChild(removeChild(container, "inputHolder"),
                                "linkContent")
    /\ preview' = showLinkPreview(preview, Head(timers).meta, _data.link,
                                  config.language.str)
    /\ ret' = [op |-> "timer",
               val |-> IF showLinkPreviewThrows(_data.link)
                       THEN "throws" ELSE "none"]
    /\ UNCHANGED <<widgets, dataVars, rendered, inWrapper, selectInDom, selectActive,
                   inputValue, ulList, inputError, progress, listeners,
                   inflight, issued, notifications, histVars>>

\* ------------------------------------------------------- host accessors
\* save(), were it to return the last committed pair
saveValue_committed == committed

\* save()
saveValue == _data

Save ==
    /\ ret' = [op |-> "save", val |-> saveValue]
    /\ UNCHANGED <<widgets, dataVars, domVars, netVars, histVars>>

\* validate() without the trim
validateValue_noTrim == _data.link # <<>>

\* validate()
validateValue == Trim(_data.link) # <<>>

Validate ==
    /\ ret' = [op |-> "validate", val |-> validateValue]
    /\ UNCHANGED <<widgets, dataVars, domVars, netVars, histVars>>

Next ==
    \/ Render
    \/ InputClick
    \/ DocumentClick
    \/ \E text \in Texts \cup {inputValue} : KeyUp(text)
    \/ \E i \in 1..Len(Catalog) : EntryClick(i)
    \/ \E r \in inflight : Reject(r)
    \/ \E r \in inflight, code \in Codes, body \in Bodies : Respond(r, code, body)
    \/ TimerFire
    \/ Save
    \/ Validate

Spec == Init /\ [][Next]_vars

\* ------------------------------------------------- blocks saved with a price
\* price strings of "5" and the yen glyph
Prices == UNION {[1..n -> {53, 20870}] : n \in 1..MaxPriceLen}

\* config.language: English, Japanese, none
Languages == { Str(<<101, 110>>), Str(<<106, 97, 45, 74, 80>>), Undefined }

PriceConfigs == { [endpoint |-> Str(Endpoint), headers |-> Obj(HeaderSet),
                   language |-> l] : l \in Languages }

PriceData == { [link |-> Str(UrlA),
                meta |-> Obj([lowest_price_gross |-> p])] : p \in Prices }

InitPrice == construct(PriceConfigs, PriceData) /\ widgets = <<>>

\* a saved block shows its preview at once: the host renders it and reads it
NextPrice == Render \/ Save \/ Validate

SpecPrice == InitPrice /\ [][NextPrice]_vars


\* ------------------------------------- two instances in one document
\* Both instances are rendered in their input view from the same config;
\* widgets[w] holds the fields of instance w that its input and list touch.
\* Each <li> carries the instance whose closure handles its click.
Instances == 1..2

\* render() of instance w with no saved data (makeInputHolder)
newWidget(w) ==
    [inputValue |-> <<>>,
     ulList |-> [i \in 1..Len(Catalog) |-> [product |-> i, owner |-> w]],
     selectActive |-> FALSE,
     listening |-> FALSE,
     url |-> <<>>,
     link |-> <<>>,
     issued |-> <<>>]

InitTwo ==
    /\ construct(ConfigInputs, {[link |-> Undefined, meta |-> Undefined]})
    /\ widgets = [w \in Instances |-> newWidget(w)]

\* document.getElementById: the first element in tree order that has the
\* id; every instance gives its input and its list the same ids (lines
\* 231, 259), so the lookup finds those of the first instance
getElementById == CHOOSE w \in Instances : \A v \in Instances : w <= v

\* click on the input of instance w; the other instances' document
\* listeners find the target inside a select and do nothing
InputClick2(w) ==
    /\ widgets' = [widgets EXCEPT ![w].selectActive = TRUE,
                                  ![w].listening = TRUE]
    /\ UNCHANGED oneVars

\* a key goes up in the input of instance w, which then holds text:
\* filteringProducts of w reads and empties what getElementById finds,
\* and makeProductsList of w fills it with entries bound to w
KeyUp2(w, text) ==
    /\ LET typed == [widgets EXCEPT ![w].inputValue = text]
           found == getElementById
           pList == filterProductsList(typed[found].inputValue)
       IN widgets' = [typed EXCEPT ![found].ulList =
                         [k \in 1..Len(pList) |->
                             [product |-> pList[k], owner |-> w]]]
    /\ UNCHANGED oneVars

\* click on the k-th <li> of the list of instance w: the handler of the
\* instance the entry is bound to, startFetching and fetchLinkData up to
\* its await; then every registered formDeleteFunc closes its dropdown
EntryClick2(w, k) ==
    /\ widgets[w].selectActive
    /\ k \in 1..Len(widgets[w].ulList)
    /\ LET entry == widgets[w].ulList[k]
           product == Catalog[entry.product]
       IN /\ Len(widgets[entry.owner].issued) < MaxSelections
          /\ widgets' =
               [v \in Instances |->
                  LET handled ==
                        IF v = entry.owner
                        THEN [widgets[v] EXCEPT !.url = product.url,
                                                !.inputValue = product.title,
                                                !.selectActive = FALSE,
                                                !.link = product.url,
                                                !.issued = Append(@, product.url)]
                        ELSE widgets[v]
                  IN IF widgets[v].listening
                     THEN [handled EXCEPT !.selectActive = FALSE]
                     ELSE handled]
    /\ UNCHANGED oneVars

\* a click outside every select: each registered formDeleteFunc runs
DocumentClick2 ==
    /\ \E w \in Instances : widgets[w].listening
    /\ widgets' = [v \in Instances |->
                     IF widgets[v].listening
                     THEN [widgets[v] EXCEPT !.selectActive = FALSE]
                     ELSE widgets[v]]
    /\ UNCHANGED oneVars

NextTwo ==
    \/ \E w \in Instances : InputClick2(w)
    \/ \E w \in Instances, text \in Texts : KeyUp2(w, text)
    \/ \E w \in Instances, k \in 1..Len(Catalog) : EntryClick2(w, k)
    \/ DocumentClick2

SpecTwo == InitTwo /\ [][NextTwo]_vars

\* ------------------------------------------------------------------ claims
NonEmpty(meta) == KeyCount(meta) > 0

\* a body that is falsy or empty: null, undefined, '' or {}
FalsyOrEmpty(body) == ~Truthy(body) \/ KeyCount(body) = 0

ErrorNote(message) == [message |-> message, style |-> "error"]

\* C1: in every reachable state meta is non-empty if and only if a
\* successful fetch has completed for the link ToolData now holds (saved
\* data with metadata counts as fetched; so does the link a response
\* commits).
C1_MetaIffFetched == NonEmpty(_data.meta) <=> (_data.link \in fetched)

\* C2: handling a response whose status is >= 400, whatever its body,
\* leaves ToolData as the optimistic update left it (the selected link and
\* the old meta when nothing else was handled since), schedules and renders
\* no preview, and sends exactly one error notification "Couldn't get this
\* link data, try the other one".
C2_FailedStatusAborts ==
    [][\A r \in inflight, code \in Codes, body \in Bodies :
          (code >= 400 /\ Respond(r, code, body)) =>
              /\ _data' = _data
              /\ Len(issued) = 1 =>
                    _data' = [link |-> r.data.url, meta |-> Obj(NoObj)]
              /\ timers' = timers
              /\ container' = container
              /\ preview' = preview
              /\ notifications' = Append(notifications, ErrorNote(MsgGet))]_vars

C2_Witness ==
    /\ Len(issued) = 1
    /\ inflight = {}
    /\ notifications = <<ErrorNote(MsgGet)>>
    /\ _data = [link |-> issued[1].data.url, meta |-> Obj(NoObj)]
    /\ timers = <<>>
    /\ ~InContainer("linkContent")

\* C3: handling a response whose status is < 400 and whose body is falsy or
\* empty (null, undefined, '', {}) sends the error notification "Wrong
\* response format from the server", leaves meta unchanged and schedules no
\* preview.
C3_EmptyBodyIsFormatError ==
    [][\A r \in inflight, code \in Codes, body \in Bodies :
          (code < 400 /\ FalsyOrEmpty(body) /\ Respond(r, code, body)) =>
              /\ notifications' = Append(notifications, ErrorNote(MsgFormat))
              /\ _data'.meta = _data.meta
              /\ timers' = timers]_vars

Successful(code, body) == code < 400 /\ Truthy(body) /\ KeyCount(body) > 0

\* C5: every successful response sets meta to its body, whatever is in
\* flight and whatever resolved before, and nothing but a response changes
\* meta: with overlapping fetches meta is the body of the response that
\* resolved last.
C5_LastResolvedWins ==
    [][/\ \A r \in inflight, code \in Codes, body \in Bodies :
             (Successful(code, body) /\ Respond(r, code, body)) =>
                 _data'.meta = body
       /\ _data'.meta # _data.meta =>
             \E r \in inflight, code \in Codes, body \in Bodies :
                 code < 400 /\ Respond(r, code, body) /\ _data'.meta = body]_vars

\* both requests were in flight together (the second issued resolved
\* first), both resolved with different metadata, the last one's is kept
C5_Witness ==
    /\ Len(timers) = 2
    /\ timers[1].id = 2
    /\ timers[2].id = 1
    /\ timers[1].meta # timers[2].meta
    /\ KeyCount(timers[1].meta) > 0
    /\ inflight = {}
    /\ _data.meta = timers[2].meta

\* C6: every request issued is a GET to config.endpoint with the header set
\* config.headers and the single query parameter url = the selected URL.
C6_RequestShape ==
    \A k \in 1..Len(issued) :
        /\ issued[k].method = "GET"
        /\ issued[k].url = config.endpoint
        /\ issued[k].headers = config.headers
        /\ DOMAIN issued[k].data = {"url"}
        /\ \E i \in 1..Len(Catalog) : issued[k].data.url = Catalog[i].url
        /\ k = Len(issued) => issued[k].data.url = url

\* C7: a rejected request sends exactly one error notification "Couldn't
\* fetch the link data", leaves meta unchanged and issues no request; a
\* request is issued by an entry click and by nothing else, one per click.
C7_RejectNoRetry ==
    [][/\ \A r \in inflight :
             Reject(r) =>
                 /\ notifications' = Append(notifications, ErrorNote(MsgFetch))
                 /\ _data'.meta = _data.meta
                 /\ issued' = issued
                 /\ inflight' = inflight \ {r}
       /\ issued' # issued => \E i \in 1..Len(Catalog) : EntryClick(i)
       /\ \A i \in 1..Len(Catalog) :
             EntryClick(i) => Len(issued') = Len(issued) + 1]_vars

C7_Witness ==
    /\ ret.op = "reject"
    /\ Len(issued) = 1
    /\ inflight = {}
    /\ notifications = <<ErrorNote(MsgFetch)>>

\* C8: when the settle delay of a successful response (status < 400,
\* non-empty body) ends, the input view
\* is gone and the preview shows that response: the anchor's href is
\* body.link when present and otherwise the URL selected for that request,
\* and the title is the body's.
C8_PreviewShowsResponse ==
    [][(TimerFire /\ KeyCount(Head(timers).meta) > 0) =>
          LET t == Head(timers)
              link == Field(t.meta, "link")
              title == Field(t.meta, "title")
          IN /\ ~InContainer("inputHolder")'
             /\ InContainer("linkContent")'
             /\ preview'.href = IF Truthy(link) THEN link
                                ELSE Str(issued[t.id].data.url)
             /\ Truthy(title) => preview'.title = title.str]_vars

Folded(s) == toLowerCase(replaceFullWidthCharactersWithHalfWidth(s))

\* t occurs in s at some offset
Contains(s, t) ==
    \E k \in 0..(Len(s) - Len(t)) : \A j \in 1..Len(t) : s[k + j] = t[j]

\* the catalog indices whose folded title contains the folded text
Matching(text) ==
    {i \in 1..Len(Catalog) : Contains(Folded(Catalog[i].title), Folded(text))}

\* C11: after a key-up the list holds exactly the catalog entries whose
\* folded title contains the folded input text, each once and in catalog
\* order, and the whole catalog when the text is empty; the list is a
\* function of the current text alone.
C11_FilterExact ==
    [][\A text \in Texts \cup {inputValue} :
          KeyUp(text) =>
              /\ {ulList'[k] : k \in 1..Len(ulList')} = Matching(inputValue')
              /\ \A j, k \in 1..Len(ulList') : j < k => ulList'[j] < ulList'[k]
              /\ inputValue' = <<>> => Len(ulList') = Len(Catalog)]_vars

\* the full-width capital typed after another text: only the second entry
\* is listed
C11_Witness ==
    /\ inputValue = <<65315>>
    /\ ulList = <<2>>

\* the first place of the yen glyph in a price that holds one
FirstYen(price) ==
    CHOOSE k \in 1..Len(price) :
        price[k] = 20870 /\ \A j \in 1..(k - 1) : price[j] # 20870

\* C12: the price line of a rendered preview is "JPY " and the price with
\* its yen glyph taken out when the language is not ja-JP and the price
\* holds the glyph (the first one, when it holds several), and the price
\* unchanged in every other case.
C12_PriceText ==
    rendered =>
        LET price == _data.meta.obj.lowest_price_gross
            shown == preview.bodies[1].price
            japanese == config.language.str = <<106, 97, 45, 74, 80>>
            hasYen == \E i \in 1..Len(price) : price[i] = 20870
        IN /\ Len(preview.bodies) = 1
           /\ preview.bodies[1].hasInfo
           /\ shown.kind = "string"
           /\ IF ~japanese /\ hasYen
              THEN /\ shown.str = <<74, 80, 89, 32>>
                                  \o SubSeq(price, 1, FirstYen(price) - 1)
                                  \o SubSeq(price, FirstYen(price) + 1, Len(price))
                   /\ Len(shown.str) = Len(price) + 3
              ELSE shown.str = price

\* "5円" rendered for an English widget as "JPY 5"
C12_Witness ==
    /\ rendered
    /\ config.language.str = <<101, 110>>
    /\ Field(_data.meta, "lowest_price_gross").str = <<53, 20870>>
    /\ preview.bodies[1].price.str = <<74, 80, 89, 32, 53>>

\* C13: render() leaves in the container the preview when the block's meta
\* has keys and the input view when it has none, and from then on the
\* container holds exactly one of the two views, never both.
C13_OneView ==
    /\ ~rendered => container = <<>>
    /\ rendered => InContainer("inputHolder") # InContainer("linkContent")
    /\ ret.op = "render" =>
           (InContainer("linkContent") <=> NonEmpty(_data.meta))

\* a response has replaced the input view by the preview
C13_Witness ==
    /\ ret.op = "timer"
    /\ InContainer("linkContent")
    /\ ~InContainer("inputHolder")
    /\ Len(issued) > 0

\* C14: showLinkPreview never raises: a link that does not parse as a URL is
\* swallowed, so render() of a saved block returns its root node and the
\* settle-delay callback of a successful fetch completes.
C14_UnparsableLinkSwallowed ==
    /\ ret.op \in {"render", "timer"} => ret.val # "throws"
    /\ rendered => inWrapper

\* C15: the dropdown is active exactly when the latest click was a click on
\* the input: it starts closed, an input click leaves it open, an entry
\* click and a click outside the select leave it closed, no other step
\* changes it, and while no document listener is registered (when a click
\* outside runs no handler) it is closed.
C15_ActiveIffInputClickedLast ==
    /\ [](~rendered => ~selectActive)
    /\ [](listeners = <<>> => ~selectActive)
    /\ [][/\ InputClick => selectActive'
          /\ (\E i \in 1..Len(Catalog) : EntryClick(i)) => ~selectActive'
          /\ DocumentClick => ~selectActive'
          /\ selectActive' # selectActive =>
                \/ InputClick
                \/ \E i \in 1..Len(Catalog) : EntryClick(i)
                \/ DocumentClick]_vars

\* opened by an input click and closed by a click outside, no entry chosen
C15_Witness ==
    /\ InputShown
    /\ listeners # <<>>
    /\ ~selectActive
    /\ issued = <<>>

\* C16 as stated: every input click adds a registration of the handler to
\* the document and a closing click outside takes the registrations away.
C16_ListenersAccumulate ==
    [][/\ InputClick => Len(listeners') = Len(listeners) + 1
       /\ DocumentClick => listeners' = <<>>]_vars

\* C16: the first input click registers the handler on the document; every
\* later input click passes the same function again and adds nothing, and no
\* step removes it, so a rendered widget holds at most one registration
\* however often the dropdown is opened.
C16_OneRegistration ==
    /\ [](Len(listeners) <= 1)
    /\ [][/\ InputClick => listeners' = <<"formDeleteFunc">>
          /\ \A i \in 1..Len(listeners) :
                Len(listeners') >= i /\ listeners'[i] = listeners[i]]_vars

\* opened, closed by choosing an entry, and opened again
C16_Witness ==
    /\ selectActive
    /\ issued # <<>>
    /\ listeners = <<"formDeleteFunc">>

\* C17: with two instances in one document a key-up in one instance's input
\* rebuilds that instance's list from its own text and leaves the other
\* instance as it was, and a click on an entry of one instance's list sets
\* the pending URL and starts a fetch in that instance and in no other.
C17_InstancesIsolated ==
    [][\A w \in Instances :
          \A o \in Instances \ {w} :
             /\ \A text \in Texts :
                   KeyUp2(w, text) =>
                      /\ widgets'[o] = widgets[o]
                      /\ widgets'[w].ulList =
                            [k \in 1..Len(filterProductsList(text)) |->
                               [product |-> filterProductsList(text)[k],
                                owner |-> w]]
             /\ \A k \in 1..Len(Catalog) :
                   EntryClick2(w, k) =>
                      /\ widgets'[w].url =
                            Catalog[widgets[w].ulList[k].product].url
                      /\ Len(widgets'[w].issued) = Len(widgets[w].issued) + 1
                      /\ widgets'[o].url = widgets[o].url
                      /\ widgets'[o].link = widgets[o].link
                      /\ widgets'[o].issued = widgets[o].issued]_vars

\* C18: the preview of a rendered widget is populated at most once: it
\* never holds more than one <img> or more than one body block with a
\* title, whatever the selections and successful responses and their order
\* (a block without title comes from a response that carried no metadata).
C18_PreviewPopulatedOnce ==
    /\ Len(preview.imgs) <= 1
    /\ Cardinality({k \in 1..Len(preview.bodies) :
                       preview.bodies[k].hasTitle}) <= 1

====
